---- MODULE Spec2Model ----
(***************************************************************************)
(* A model of the sdstore Collection engine (package sdstore): a           *)
(* Collection handle over a directory of record files and an index file,   *)
(* used by concurrent callers; further handles opened on the same path,    *)
(* and writes of the files that fail.                                      *)
(***************************************************************************)
EXTENDS Integers, Sequences, FiniteSets, TLC

(***************************************************************************)
(* Bounds of the model.                                                    *)
(***************************************************************************)
\* Number of Create/Get/GetIndexed/Update/Delete/Query/QueryPaginated calls
\* started in a behaviour.
MaxCalls == 3

\* Collections opened on the same path after the first one.
MaxOpens == 1

\* Largest number of matches, page and rows the pagination is applied to.
MaxMatches == 4
MaxPage == 4
MaxRows == 3

\* The concurrent callers (goroutines) of the Collection.
Procs == {"p1", "p2"}

\* Record identifiers (also the values of Record.ID), in the lexical order
\* in which filepath.Walk visits their files.
WalkOrder == <<"1", "2">>
Ids == {WalkOrder[i] : i \in 1..Len(WalkOrder)}

\* Values of Record.Name and Record.Email used by the callers.
Names == {"n"}
Emails == {"a", "a:b"}

\* The <<field, v>> arguments of GetIndexed used by the callers.
Lookups == {<<"Email", "a">>, <<"Email", "b">>, <<"Name", "n">>, <<"Email:a", "b">>}

\* The predicates passed to Query: <<field, v>> is "the record's field
\* equals v", <<"", "">> accepts every record.
Preds == {<<"", "">>, <<"Email", "a">>}

\* The <<page, rows>> arguments of QueryPaginated used by the callers.
PageArgs == {<<1, 1>>, <<1, 0>>}

\* The settings a Collection is constructed with: WithIndexedFields(...).
FieldConfigs == {<< >>, <<"Email">>, <<"Email", "Name">>, <<"Phone">>}

\* The encoder/decoder pairs a Collection is constructed with: encoding/json
\* (newCollection's default, WithJSONEncoding) and the ugorji codec handles
\* (New's default WithCborEncoding, WithMsgpackEncoding, WithBincEncoding),
\* or none at all ("nil": withEncoding(nil, nil)).
Codecs == {"json", "codec", "nil"}

(***************************************************************************)
(* Records, reflection and the codec.                                      *)
(***************************************************************************)
\* type Record struct { ID, Name, Email string }
Record == [ID : Ids, Name : Names, Email : Emails]

\* The struct's fields in declaration order.
RecordFields == <<"ID", "Name", "Email">>

\* The zero value of Record.
ZeroRecord == [ID |-> "", Name |-> "", Email |-> ""]

\* An `any` argument: a Record passed by value ("struct"), a *Record ("ptr"),
\* or a value that is neither ("other", such as an int or a string).
Data == [kind : {"struct", "ptr"}, rec : Record] \cup {[kind |-> "other", rec |-> ZeroRecord]}

\* The records a caller passes for id: as the callers of the package do
\* (c.Create(o.ID, o)), a record is stored under its own ID.
DataFor(id) == {d \in Data : d.kind = "other" \/ d.rec.ID = id}

\* A destination argument of Get/GetIndexed.
Dest == {[kind |-> k, rec |-> ZeroRecord] : k \in {"struct", "ptr", "other"}}

isStruct(v) == v.kind = "struct"

isPointerToStruct(v) == v.kind = "ptr"

HasField(name) == \E i \in 1..Len(RecordFields) : RecordFields[i] = name

\* What fmt prints with %v for an invalid reflect.Value.
invReflectString == "<invalid reflect.Value>"

\* getFieldValue(v, field): nil for a value that is neither a struct nor a
\* pointer to one; for a pointer to a struct reflect.Value.FieldByName
\* panics (the Value's Kind is Ptr); for a struct the field's reflect.Value,
\* which is the zero (invalid) Value when the struct has no such field and
\* is never the nil interface.  A reflect.Value is represented by the text
\* that %v prints for it.
getFieldValue(v, field) ==
    IF ~isStruct(v) /\ ~isPointerToStruct(v) THEN [tag |-> "nil", text |-> ""]
    ELSE IF isPointerToStruct(v) THEN [tag |-> "panic", text |-> ""]
    ELSE IF HasField(field) THEN [tag |-> "value", text |-> v.rec[field]]
    ELSE [tag |-> "value", text |-> invReflectString]

\* key(field, value) = fmt.Sprintf("%s:%v", field, value), on the %v text.
key(field, text) == field \o ":" \o text

\* Encode(data): the encoded bytes, as the sequence of <<name, value>> pairs
\* the encoder emits for the struct (a pointer encodes as its struct).
Encode(data) == [i \in 1..Len(RecordFields) |-> <<RecordFields[i], data.rec[RecordFields[i]]>>]

\* The value stored under `name` in encoded bytes, "" when there is none.
Lookup(b, name) ==
    IF \E i \in 1..Len(b) : b[i][1] = name
    THEN b[CHOOSE i \in 1..Len(b) : b[i][1] = name][2]
    ELSE ""

\* Whether the Decoder accepts b: the bytes of a file left empty are no
\* document of any of the encodings.
Decodable(b) == b # << >>

\* Decode(b, dest) with dest a *Record: each struct field from its pair.
Decode(b) == [f \in {"ID", "Name", "Email"} |-> Lookup(b, f)]

\* Decode(b, &oldRec) with oldRec an empty interface: encoding/json builds a
\* map[string]any, the ugorji codec handles a map[interface{}]interface{}.
DecodeAny(b, codec) ==
    [stringMap |-> codec = "json",
     m |-> [n \in {b[i][1] : i \in 1..Len(b)} |-> Lookup(b, n)]]

(***************************************************************************)
(* State.                                                                  *)
(***************************************************************************)
VARIABLES
    files,        \* the directory: id -> the record file <id>.sds
    indexFile,    \* the index file <name>.sdx
    initialized,  \* Collection.initialized
    Fields,       \* Collection.Indexing.Fields
    Indexes,      \* Collection.Indexing.Indexes: key -> id
    codec,        \* Collection.Encoder / Collection.Decoder
    mu,           \* Collection.mu: the caller holding the lock, or "free"
    pc,           \* each caller's position
    call,         \* each caller's current (or last) call and its arguments
    ret,          \* each caller's last returned error
    dest,         \* each caller's destination of Get/GetIndexed
    oldRec,       \* Update's local oldRec
    crashed,      \* an unrecovered panic has ended the process
    ncalls,       \* calls started so far
    walk,         \* Query's filepath.Walk: the names still to visit, page, rows
    res,          \* each caller's result of Query/QueryPaginated
    indexWritable,\* os.WriteFile of the index file succeeds
    nopens        \* Collections opened on the path after the first

vars == <<files, indexFile, initialized, Fields, Indexes, codec, mu, pc, call,
          ret, dest, oldRec, crashed, ncalls, walk, res, indexWritable, nopens>>

NoFile == [exists |-> FALSE, b |-> << >>]

File(b) == [exists |-> TRUE, b |-> b]

EmptyIndexes == [k \in {} |-> "1"]

\* A caller that runs no Query: nothing to visit.
NoWalk == [todo |-> << >>, page |-> 0, rows |-> 0]

\* The nil result of Query/QueryPaginated.
NoRes == [recs |-> << >>, pages |-> 0]

NoOldRec == [stringMap |-> FALSE, m |-> EmptyIndexes]

NoData == [kind |-> "other", rec |-> ZeroRecord]

Call(op, id, data, field, v) == [op |-> op, id |-> id, data |-> data, field |-> field, v |-> v]

Err(e) == [err |-> e, field |-> ""]

\* &IndexedValueNotUniqueError{Field: fld}
IndexedValueNotUniqueError(fld) == [err |-> "IndexedValueNotUniqueError", field |-> fld]

(***************************************************************************)
(* Helpers of Collection.                                                  *)
(***************************************************************************)
\* A save that keeps the content of a file that exists.
saveKeepingOld(fs, id, b) == IF fs[id].exists THEN fs ELSE [fs EXCEPT ![id] = File(b)]

\* c.save(filename, data) of a record file: os.WriteFile replaces the content.
save(fs, id, b) == [fs EXCEPT ![id] = File(b)]

\* c.exists(id): os.Stat of the record file.
exists(fs, id) == fs[id].exists

\* c.existsIndexed(field, value)
existsIndexed(idx, field, text) == key(field, text) \in DOMAIN idx

\* c.saveIndexes(): the encoded c.Indexing written over the index file.
saveIndexes(flds, idx) == [exists |-> TRUE, Fields |-> flds, Indexes |-> idx]

\* c.Indexing.Indexes[k] = id
Put(idx, k, id) == [x \in DOMAIN idx \cup {k} |-> IF x = k THEN id ELSE idx[x]]

\* delete(c.Indexing.Indexes, k)
Remove(idx, k) == [x \in DOMAIN idx \ {k} |-> idx[x]]

\* A decode that stores nothing into the map.
DecodeIntoNothing(idx, loaded) == idx

\* Decode of a persisted table into the map c.Indexing.Indexes: each
\* persisted key is stored into the map that is there.
DecodeInto(idx, loaded) ==
    [k \in DOMAIN idx \cup DOMAIN loaded |-> IF k \in DOMAIN loaded THEN loaded[k] ELSE idx[k]]

\* c.setIndex(field, value, id): the table after the insertion; the caller
\* also writes it to the index file (saveIndexes).
setIndex(idx, field, text, id) == Put(idx, key(field, text), id)

\* A Delete loop that stops after the first entry it removes.
RemoveIdOnce(idx, id) ==
    IF \E k \in DOMAIN idx : idx[k] = id
    THEN Remove(idx, CHOOSE k \in DOMAIN idx : idx[k] = id)
    ELSE idx

\* Delete's loop: every entry whose mapped id equals id is removed.
RemoveId(idx, id) == [x \in {k \in DOMAIN idx : idx[k] # id} |-> idx[x]]

\* The index file after c.saveIndexes(): a failed os.WriteFile leaves the
\* file as it was.
WriteIndex(file, flds, idx, writable) == IF writable THEN saveIndexes(flds, idx) ELSE file

NoIndexFile == [exists |-> FALSE, Fields |-> << >>, Indexes |-> EmptyIndexes]

\* The state a loop of Create/Update works on: the index table, the index
\* file, and how the loop ended ("nil": ran to its end).
LoopState(idx, file, r) == [Indexes |-> idx, indexFile |-> file, ret |-> r]

\* Create's loop over c.Indexing.Fields (indexing.go 464-481), from the
\* fields still to visit.  The error setIndex returns is dropped.
RECURSIVE CreateLoop(_, _, _, _)
CreateLoop(flds, st, data, id) ==
    IF flds = << >> THEN st
    ELSE LET fld == Head(flds)
             v == getFieldValue(data, fld)
         IN  IF v.tag = "panic" THEN LoopState(st.Indexes, st.indexFile, Err("panic"))
             ELSE IF v.tag = "nil" THEN CreateLoop(Tail(flds), st, data, id)
             ELSE IF existsIndexed(st.Indexes, fld, v.text)
             THEN LoopState(st.Indexes, st.indexFile, IndexedValueNotUniqueError(fld))
             ELSE LET idx == setIndex(st.Indexes, fld, v.text, id)
                  IN  CreateLoop(Tail(flds),
                                 LoopState(idx, WriteIndex(st.indexFile, Fields, idx, indexWritable), st.ret),
                                 data, id)

\* The stale entry Update removes for fld: key(fld, oldv) when the old record
\* decoded to a map[string]any holding fld, whatever id the key is mapped to.
RemoveOld(idx, old, fld) ==
    IF old.stringMap /\ fld \in DOMAIN old.m THEN Remove(idx, key(fld, old.m[fld])) ELSE idx

\* Update's loop over c.Indexing.Fields (indexing.go 672-686).  No
\* uniqueness check is made before setIndex.
RECURSIVE UpdateLoop(_, _, _, _, _)
UpdateLoop(flds, st, old, data, id) ==
    IF flds = << >> THEN st
    ELSE LET fld == Head(flds)
             cleaned == RemoveOld(st.Indexes, old, fld)
             v == getFieldValue(data, fld)
         IN  IF v.tag = "panic" THEN LoopState(cleaned, st.indexFile, Err("panic"))
             ELSE IF v.tag = "nil"
             THEN UpdateLoop(Tail(flds), LoopState(cleaned, st.indexFile, st.ret), old, data, id)
             ELSE LET idx == setIndex(cleaned, fld, v.text, id)
                  IN  UpdateLoop(Tail(flds),
                                 LoopState(idx, WriteIndex(st.indexFile, Fields, idx, indexWritable), st.ret),
                                 old, data, id)

\* The body of recreateIndexes' walk callback for one record file, from the
\* fields still to visit: rec is the *Record made by reflect.New(c.record),
\* so getFieldValue and reflect.ValueOf(rec).Field(0) are applied to a
\* pointer.  "done": the loop ended and c.Indexing.Indexes = newIndexes is
\* executed; "skip": the callback returned nil from inside the loop.
RECURSIVE IndexRecord(_, _, _)
IndexRecord(flds, rec, newIndexes) ==
    IF flds = << >> THEN [how |-> "done", newIndexes |-> newIndexes]
    ELSE LET val == getFieldValue([kind |-> "ptr", rec |-> rec], Head(flds))
         IN  IF val.tag = "panic" THEN [how |-> "panic", newIndexes |-> newIndexes]
             ELSE IF val.tag = "nil" \/ rec.ID = ""
             THEN [how |-> "skip", newIndexes |-> newIndexes]
             ELSE IndexRecord(Tail(flds), rec, Put(newIndexes, key(Head(flds), val.text), rec.ID))

\* recreateIndexes (indexing.go 346-395): filepath.Walk over the record
\* files in lexical order.  c.Indexing.Indexes is assigned newIndexes only
\* in a callback that reaches the end of its field loop; from then on both
\* name the same map.
RECURSIVE Walk(_, _, _, _, _)
Walk(ids, fs, flds, newIndexes, assigned) ==
    IF ids = << >> THEN [panic |-> FALSE, newIndexes |-> newIndexes, assigned |-> assigned]
    ELSE IF ~exists(fs, Head(ids)) THEN Walk(Tail(ids), fs, flds, newIndexes, assigned)
    ELSE IF ~Decodable(fs[Head(ids)].b) THEN Walk(Tail(ids), fs, flds, newIndexes, assigned)
    ELSE LET r == IndexRecord(flds, Decode(fs[Head(ids)].b), newIndexes)
         IN  IF r.how = "panic"
             THEN [panic |-> TRUE, newIndexes |-> r.newIndexes, assigned |-> assigned]
             ELSE Walk(Tail(ids), fs, flds, r.newIndexes, assigned \/ r.how = "done")

recreateIndexes(fs, flds, idx) ==
    LET w == Walk(WalkOrder, fs, flds, EmptyIndexes, FALSE)
    IN  [panic |-> w.panic, Indexes |-> IF w.assigned THEN w.newIndexes ELSE idx]

(***************************************************************************)
(* The initial state: newCollection(name, path, Record{}, options...).     *)
(***************************************************************************)
Init ==
    /\ files = [i \in Ids |-> NoFile]
    /\ indexFile = NoIndexFile
    /\ initialized = FALSE
    /\ Fields \in FieldConfigs
    /\ Indexes = EmptyIndexes
    /\ codec \in Codecs
    /\ mu = "free"
    /\ pc = [p \in Procs |-> "idle"]
    /\ call = [p \in Procs |-> Call("none", "", NoData, "", "")]
    /\ ret = [p \in Procs |-> Err("none")]
    /\ dest = [p \in Procs |-> ZeroRecord]
    /\ oldRec = [p \in Procs |-> NoOldRec]
    /\ crashed = FALSE
    /\ ncalls = 0
    /\ walk = [p \in Procs |-> NoWalk]
    /\ res = [p \in Procs |-> NoRes]
    /\ indexWritable = TRUE
    /\ nopens = 0

(***************************************************************************)
(* Steps shared by the operations.                                         *)
(***************************************************************************)
\* A caller starts a call.
Begin(p) ==
    /\ pc[p] = "idle"
    /\ ~crashed
    /\ dest' = [dest EXCEPT ![p] = ZeroRecord]
    /\ res' = [res EXCEPT ![p] = NoRes]

\* A counted call: one of the MaxCalls calls of a behaviour.
BeginCounted(p) ==
    /\ ncalls < MaxCalls
    /\ ncalls' = ncalls + 1
    /\ Begin(p)

\* What is kept of a call once it has returned: the operation.
Forget(c) == Call(c.op, "", NoData, "", "")

\* The call c returns r from its first step.
Reject(p, c, r) ==
    /\ call' = [call EXCEPT ![p] = Forget(c)]
    /\ ret' = [ret EXCEPT ![p] = r]
    /\ UNCHANGED pc

\* The call c passes its first step and goes on at position l.
Enter(p, c, l) ==
    /\ call' = [call EXCEPT ![p] = c]
    /\ ret' = [ret EXCEPT ![p] = Err("pending")]
    /\ pc' = [pc EXCEPT ![p] = l]

\* The call in progress returns r to its caller.
Return(p, r) ==
    /\ call' = [call EXCEPT ![p] = Forget(call[p])]
    /\ ret' = [ret EXCEPT ![p] = r]
    /\ pc' = [pc EXCEPT ![p] = "idle"]

\* The call in progress goes on at position l.
Goto(p, l) ==
    /\ pc' = [pc EXCEPT ![p] = l]
    /\ UNCHANGED <<call, ret>>

\* A Lock that does not wait for the holder.
LockUnguarded(p, l) ==
    /\ pc[p] = l
    /\ ~crashed

\* c.mu.Lock() at position l.
Lock(p, l) ==
    /\ pc[p] = l
    /\ ~crashed
    /\ mu = "free"

\* A panic nobody recovers: the deferred Unlock runs and the process ends.
Panic(p) ==
    /\ crashed' = TRUE
    /\ mu' = "free"
    /\ Return(p, Err("panic"))

(***************************************************************************)
(* Collection.Init (indexing.go 400-437).                                  *)
(***************************************************************************)
\* An Init without the check of c.initialized.
InitCallUnchecked(p) ==
    /\ Begin(p)
    /\ Enter(p, Call("Init", "", NoData, "", ""), "InitLock")
    /\ UNCHANGED <<files, indexFile, initialized, Fields, Indexes, codec, mu,
                   oldRec, crashed, ncalls, indexWritable, nopens, walk>>

InitCall(p) ==
    LET c == Call("Init", "", NoData, "", "")
    IN  /\ Begin(p)
        /\ IF initialized THEN Reject(p, c, Err("ErrAlreadyInitialized"))
           ELSE IF codec = "nil" THEN Reject(p, c, Err("nil encoder"))
           ELSE Enter(p, c, "InitLock")
        /\ UNCHANGED <<files, indexFile, initialized, Fields, Indexes, codec, mu,
                       oldRec, crashed, ncalls,
                   indexWritable, nopens, walk>>

\* indexedFields := c.Indexing.Fields is a slice header over the array
\* c.Indexing.Fields uses; the decode of the index file into &c.Indexing
\* stores the persisted names into that array in place, as far as it
\* reaches, so indexedFields reads them afterwards.
SharedSlice(indexedFields, loaded) ==
    [i \in 1..Len(indexedFields) |-> IF i <= Len(loaded) THEN loaded[i] ELSE indexedFields[i]]

\* The locked part: loadIndexes (a missing index file is tolerated), the
\* comparison of the configured fields with the loaded ones, recreateIndexes.
InitLocked(p) ==
    /\ Lock(p, "InitLock")
    /\ LET indexedFields == Fields
           loadedFields == IF indexFile.exists THEN indexFile.Fields ELSE Fields
           loadedIndexes == IF indexFile.exists
                            THEN DecodeInto(Indexes, indexFile.Indexes)
                            ELSE Indexes
           r == IF SharedSlice(indexedFields, loadedFields) # loadedFields
                THEN recreateIndexes(files, loadedFields, loadedIndexes)
                ELSE [panic |-> FALSE, Indexes |-> loadedIndexes]
       IN  /\ Fields' = loadedFields
           /\ Indexes' = r.Indexes
           /\ IF r.panic
              THEN Panic(p) /\ UNCHANGED initialized
              ELSE initialized' = TRUE /\ Return(p, Err("nil")) /\ UNCHANGED <<mu, crashed>>
    /\ UNCHANGED <<files, indexFile, codec, dest, oldRec, ncalls,
                   indexWritable, nopens, walk, res>>

(***************************************************************************)
(* Collection.Create (indexing.go 440-489).                                *)
(***************************************************************************)
\* A Create without the check that no record file exists for id.
CreateCallUnchecked(p, id, data) ==
    LET c == Call("Create", id, data, "", "")
    IN  /\ BeginCounted(p)
        /\ IF ~initialized THEN Reject(p, c, Err("ErrNotInitialized"))
           ELSE IF ~isStruct(data) /\ ~isPointerToStruct(data)
           THEN Reject(p, c, Err("ErrInvalidRecordType"))
           ELSE Enter(p, c, "CreateLock")
        /\ UNCHANGED <<files, indexFile, initialized, Fields, Indexes, codec, mu,
                       oldRec, crashed, indexWritable, nopens, walk>>

\* The checks made before the lock is taken, and the encoding.
CreateCall(p, id, data) ==
    LET c == Call("Create", id, data, "", "")
    IN  /\ BeginCounted(p)
        /\ IF ~initialized THEN Reject(p, c, Err("ErrNotInitialized"))
           ELSE IF ~isStruct(data) /\ ~isPointerToStruct(data)
           THEN Reject(p, c, Err("ErrInvalidRecordType"))
           ELSE IF exists(files, id) THEN Reject(p, c, Err("ErrNotIDNotUnique"))
           ELSE Enter(p, c, "CreateLock")
        /\ UNCHANGED <<files, indexFile, initialized, Fields, Indexes, codec, mu,
                       oldRec, crashed,
                   indexWritable, nopens, walk>>

\* c.mu.Lock() and the loop over the indexed fields.
CreateIndex(p) ==
    /\ Lock(p, "CreateLock")
    /\ LET st == CreateLoop(Fields, LoopState(Indexes, indexFile, Err("nil")),
                            call[p].data, call[p].id)
       IN  /\ Indexes' = st.Indexes
           /\ indexFile' = st.indexFile
           /\ IF st.ret.err = "panic" THEN Panic(p)
              ELSE IF st.ret.err # "nil" THEN Return(p, st.ret) /\ UNCHANGED <<mu, crashed>>
              ELSE mu' = p /\ Goto(p, "CreateSave") /\ UNCHANGED crashed
    /\ UNCHANGED <<files, initialized, Fields, codec, dest, oldRec, ncalls,
                   indexWritable, nopens, walk, res>>

\* c.save of the record file, and the deferred Unlock.
CreateSave(p) ==
    /\ pc[p] = "CreateSave"
    /\ ~crashed
    /\ files' = save(files, call[p].id, Encode(call[p].data))
    /\ mu' = "free"
    /\ Return(p, Err("nil"))
    /\ UNCHANGED <<indexFile, initialized, Fields, Indexes, codec, dest, oldRec,
                   crashed, ncalls,
                   indexWritable, nopens, walk, res>>

(***************************************************************************)
(* Collection.Get (indexing.go 574-599).                                   *)
(***************************************************************************)
\* A Get without the check that the record file exists.
GetCallUnchecked(p, id, d) ==
    LET c == Call("Get", id, d, "", "")
    IN  /\ BeginCounted(p)
        /\ IF ~initialized THEN Reject(p, c, Err("ErrNotInitialized"))
           ELSE IF ~isStruct(d) /\ ~isPointerToStruct(d)
           THEN Reject(p, c, Err("ErrInvalidRecordType"))
           ELSE Enter(p, c, "GetLoad")
        /\ UNCHANGED <<files, indexFile, initialized, Fields, Indexes, codec, mu,
                       oldRec, crashed, indexWritable, nopens, walk>>

GetCall(p, id, d) ==
    LET c == Call("Get", id, d, "", "")
    IN  /\ BeginCounted(p)
        /\ IF ~initialized THEN Reject(p, c, Err("ErrNotInitialized"))
           ELSE IF ~isStruct(d) /\ ~isPointerToStruct(d)
           THEN Reject(p, c, Err("ErrInvalidRecordType"))
           ELSE IF ~exists(files, id) THEN Reject(p, c, Err("ErrNotFound"))
           ELSE Enter(p, c, "GetLoad")
        /\ UNCHANGED <<files, indexFile, initialized, Fields, Indexes, codec, mu,
                       oldRec, crashed,
                   indexWritable, nopens, walk>>

\* The outcome of c.load of id's record file and Decode into d: a
\* destination passed by value cannot be decoded into.
LoadInto(fs, id, d) ==
    IF ~exists(fs, id) THEN [ret |-> Err("loading record"), dest |-> ZeroRecord]
    ELSE IF ~isPointerToStruct(d) \/ ~Decodable(fs[id].b)
    THEN [ret |-> Err("decoding data"), dest |-> ZeroRecord]
    ELSE [ret |-> Err("nil"), dest |-> Decode(fs[id].b)]

GetLoad(p) ==
    /\ pc[p] = "GetLoad"
    /\ ~crashed
    /\ LET r == LoadInto(files, call[p].id, call[p].data)
       IN  /\ dest' = [dest EXCEPT ![p] = r.dest]
           /\ Return(p, r.ret)
    /\ UNCHANGED <<files, indexFile, initialized, Fields, Indexes, codec, mu,
                   oldRec, crashed, ncalls,
                   indexWritable, nopens, walk, res>>

(***************************************************************************)
(* Collection.GetIndexed (indexing.go 605-634).                            *)
(***************************************************************************)
GetIndexedCall(p, field, v, d) ==
    LET c == Call("GetIndexed", "", d, field, v)
    IN  /\ BeginCounted(p)
        /\ IF ~initialized THEN Reject(p, c, Err("ErrNotInitialized"))
           ELSE IF ~isStruct(d) /\ ~isPointerToStruct(d)
           THEN Reject(p, c, Err("ErrInvalidRecordType"))
           ELSE Enter(p, c, "GetIndexedLock")
        /\ UNCHANGED <<files, indexFile, initialized, Fields, Indexes, codec, mu,
                       oldRec, crashed,
                   indexWritable, nopens, walk>>

\* The outcome of the lookup made under the lock.
LookupIndexed(idx, fs, field, v, d) ==
    IF key(field, v) \notin DOMAIN idx THEN [ret |-> Err("ErrNotFound"), dest |-> ZeroRecord]
    ELSE LoadInto(fs, idx[key(field, v)], d)

GetIndexedLocked(p) ==
    /\ Lock(p, "GetIndexedLock")
    /\ LET r == LookupIndexed(Indexes, files, call[p].field, call[p].v, call[p].data)
       IN  /\ dest' = [dest EXCEPT ![p] = r.dest]
           /\ Return(p, r.ret)
    /\ UNCHANGED <<files, indexFile, initialized, Fields, Indexes, codec, mu,
                   oldRec, crashed, ncalls,
                   indexWritable, nopens, walk, res>>

(***************************************************************************)
(* Collection.Update (indexing.go 637-694).                                *)
(***************************************************************************)
\* The checks, the load and generic decode of the old record, the encoding.
UpdateCall(p, id, data) ==
    LET c == Call("Update", id, data, "", "")
    IN  /\ BeginCounted(p)
        /\ IF ~initialized
           THEN Reject(p, c, Err("ErrNotInitialized")) /\ UNCHANGED oldRec
           ELSE IF ~isStruct(data) /\ ~isPointerToStruct(data)
           THEN Reject(p, c, Err("ErrInvalidRecordType")) /\ UNCHANGED oldRec
           ELSE IF ~exists(files, id)
           THEN Reject(p, c, Err("ErrNotFound")) /\ UNCHANGED oldRec
           ELSE IF ~Decodable(files[id].b)
           THEN Reject(p, c, Err("decoding")) /\ UNCHANGED oldRec
           ELSE /\ oldRec' = [oldRec EXCEPT ![p] = DecodeAny(files[id].b, codec)]
                /\ Enter(p, c, "UpdateLock")
        /\ UNCHANGED <<files, indexFile, initialized, Fields, Indexes, codec, mu, crashed,
                   indexWritable, nopens, walk>>

\* c.mu.Lock() and the loop over the indexed fields.
UpdateIndex(p) ==
    /\ Lock(p, "UpdateLock")
    /\ LET st == UpdateLoop(Fields, LoopState(Indexes, indexFile, Err("nil")),
                            oldRec[p], call[p].data, call[p].id)
       IN  /\ Indexes' = st.Indexes
           /\ indexFile' = st.indexFile
           /\ IF st.ret.err = "panic" THEN Panic(p)
              ELSE mu' = p /\ Goto(p, "UpdateSave") /\ UNCHANGED crashed
    /\ oldRec' = [oldRec EXCEPT ![p] = NoOldRec]
    /\ UNCHANGED <<files, initialized, Fields, codec, dest, ncalls,
                   indexWritable, nopens, walk, res>>

\* c.save over the record file, and the deferred Unlock.
UpdateSave(p) ==
    /\ pc[p] = "UpdateSave"
    /\ ~crashed
    /\ files' = save(files, call[p].id, Encode(call[p].data))
    /\ mu' = "free"
    /\ Return(p, Err("nil"))
    /\ UNCHANGED <<indexFile, initialized, Fields, Indexes, codec, dest, oldRec,
                   crashed, ncalls,
                   indexWritable, nopens, walk, res>>

(***************************************************************************)
(* Collection.Delete (indexing.go 697-728).                                *)
(***************************************************************************)
\* A Delete without the check of c.initialized.
DeleteCallUnchecked(p, id) ==
    LET c == Call("Delete", id, NoData, "", "")
    IN  /\ BeginCounted(p)
        /\ IF ~exists(files, id) THEN Reject(p, c, Err("ErrNotFound"))
           ELSE Enter(p, c, "DeleteLock")
        /\ UNCHANGED <<files, indexFile, initialized, Fields, Indexes, codec, mu,
                       oldRec, crashed, indexWritable, nopens, walk>>

DeleteCall(p, id) ==
    LET c == Call("Delete", id, NoData, "", "")
    IN  /\ BeginCounted(p)
        /\ IF ~initialized THEN Reject(p, c, Err("ErrNotInitialized"))
           ELSE IF ~exists(files, id) THEN Reject(p, c, Err("ErrNotFound"))
           ELSE Enter(p, c, "DeleteLock")
        /\ UNCHANGED <<files, indexFile, initialized, Fields, Indexes, codec, mu,
                       oldRec, crashed,
                   indexWritable, nopens, walk>>

\* The locked part: os.Remove, the removal of the id's index entries and
\* saveIndexes.  os.Remove fails when the file is gone by now.
DeleteLocked(p) ==
    /\ Lock(p, "DeleteLock")
    /\ IF ~exists(files, call[p].id)
       THEN /\ Return(p, Err("deleting record"))
            /\ UNCHANGED <<files, Indexes, indexFile>>
       ELSE /\ files' = [files EXCEPT ![call[p].id] = NoFile]
            /\ Indexes' = RemoveId(Indexes, call[p].id)
            /\ indexFile' = WriteIndex(indexFile, Fields, RemoveId(Indexes, call[p].id),
                                       indexWritable)
            /\ Return(p, IF indexWritable THEN Err("nil") ELSE Err("saving indexes"))
    /\ UNCHANGED <<initialized, Fields, codec, mu, dest, oldRec, crashed, ncalls,
                   indexWritable, nopens, walk, res>>

(***************************************************************************)
(* Collection.Query and Collection.QueryPaginated (indexing.go 493-568).   *)
(***************************************************************************)
\* A filter function that accepts every record.
MatchesAll(field, v, rec) == TRUE

\* f(o) for the predicate <<field, v>>.
Matches(field, v, rec) == field = "" \/ rec[field] = v

\* The names in the collection's directory: <id>.sds under its id, and the
\* index file <name>.sdx, visited after them.
IndexName == "test.sdx"
WalkNames == WalkOrder \o <<IndexName>>

\* strings.HasSuffix(path, ".sds")
hasRecordSuffix(name) == name \in Ids

\* The files filepath.Walk finds when it reads the directory and whose
\* callback goes on to c.load: the record files that exist, in walk order
\* (the callback returns at once for a name without the record suffix).
RECURSIVE Listing(_, _)
Listing(names, fs) ==
    IF names = << >> THEN << >>
    ELSE IF hasRecordSuffix(Head(names)) /\ exists(fs, Head(names))
    THEN <<Head(names)>> \o Listing(Tail(names), fs)
    ELSE Listing(Tail(names), fs)

\* The initialized check and the start of the walk, for Query (paginated
\* FALSE) and for QueryPaginated, which makes the same check and calls Query.
QueryStart(p, c, page, rows) ==
    /\ BeginCounted(p)
    /\ IF ~initialized
       THEN Reject(p, c, Err("ErrNotInitialized")) /\ UNCHANGED walk
       ELSE /\ Enter(p, c, "QueryWalk")
            /\ walk' = [walk EXCEPT ![p] = [todo |-> Listing(WalkNames, files),
                                             page |-> page, rows |-> rows]]
    /\ UNCHANGED <<files, indexFile, initialized, Fields, Indexes, codec, mu,
                   oldRec, crashed, indexWritable, nopens>>

QueryCall(p, field, v) == QueryStart(p, Call("Query", "", NoData, field, v), 0, 0)

QueryPaginatedCall(p, field, v, page, rows) ==
    QueryStart(p, Call("QueryPaginated", "", NoData, field, v), page, rows)

\* A panic in a call that holds no lock.
Crash(p) ==
    /\ crashed' = TRUE
    /\ Return(p, Err("panic"))
    /\ UNCHANGED mu

\* The walk callback for the next listed file.  A file removed since the
\* directory was read: when its lstat fails the callback gets a nil info and
\* info.IsDir() panics, when only c.load fails the callback returns the
\* error.  A file that does not decode: the callback returns the error and
\* Query returns it.  Otherwise f is applied to the decoded record.
QueryVisit(p) ==
    /\ pc[p] = "QueryWalk"
    /\ ~crashed
    /\ walk[p].todo # << >>
    /\ LET id == Head(walk[p].todo)
       IN  IF ~exists(files, id)
           THEN \E how \in {"panic", "loading"} :
                    /\ IF how = "panic" THEN Crash(p)
                       ELSE Return(p, Err("loading")) /\ UNCHANGED <<mu, crashed>>
                    /\ walk' = [walk EXCEPT ![p] = NoWalk]
                    /\ res' = [res EXCEPT ![p] = NoRes]
           ELSE IF ~Decodable(files[id].b)
           THEN /\ Return(p, Err("decoding"))
                /\ walk' = [walk EXCEPT ![p] = NoWalk]
                /\ res' = [res EXCEPT ![p] = NoRes]
                /\ UNCHANGED <<mu, crashed>>
           ELSE /\ walk' = [walk EXCEPT ![p].todo = Tail(@)]
                /\ res' = [res EXCEPT ![p].recs =
                              IF Matches(call[p].field, call[p].v, Decode(files[id].b))
                              THEN Append(@, Decode(files[id].b)) ELSE @]
                /\ UNCHANGED <<pc, call, ret, mu, crashed>>
    /\ UNCHANGED <<files, indexFile, initialized, Fields, Indexes, codec, dest,
                   oldRec, ncalls, indexWritable, nopens>>

\* QueryPaginated's slicing of Query's result (indexing.go 542-567).
\* count / rows is an integer division whose divisor is not checked, and
\* recs[from:to] panics when from is negative or greater than to.
Paginate(recs, page, rows) ==
    IF page = 0 /\ rows = 0 THEN [panic |-> FALSE, recs |-> recs, pages |-> 0]
    ELSE IF rows = 0 THEN [panic |-> TRUE, recs |-> << >>, pages |-> 0]
    ELSE LET count == Len(recs)
             pages == (count \div rows) + (IF count % rows # 0 THEN 1 ELSE 0)
             pg == IF page > pages THEN pages ELSE page
             from == (pg * rows) - rows
             to == IF pg * rows > count THEN count ELSE pg * rows
         IN  IF from < 0 \/ from > to
             THEN [panic |-> TRUE, recs |-> << >>, pages |-> 0]
             ELSE [panic |-> FALSE, recs |-> SubSeq(recs, from + 1, to), pages |-> pages]

\* The walk has ended: Query returns res; QueryPaginated slices it.
QueryReturn(p) ==
    /\ pc[p] = "QueryWalk"
    /\ ~crashed
    /\ walk[p].todo = << >>
    /\ IF call[p].op = "Query"
       THEN Return(p, Err("nil")) /\ UNCHANGED <<res, mu, crashed>>
       ELSE LET r == Paginate(res[p].recs, walk[p].page, walk[p].rows)
            IN  IF r.panic
                THEN Crash(p) /\ res' = [res EXCEPT ![p] = NoRes]
                ELSE /\ Return(p, Err("nil"))
                     /\ res' = [res EXCEPT ![p] = [recs |-> r.recs, pages |-> r.pages]]
                     /\ UNCHANGED <<mu, crashed>>
    /\ walk' = [walk EXCEPT ![p] = NoWalk]
    /\ UNCHANGED <<files, indexFile, initialized, Fields, Indexes, codec, dest,
                   oldRec, ncalls, indexWritable, nopens>>

(***************************************************************************)
(* A further Collection on the same path, and failing writes.              *)
(***************************************************************************)
\* newCollection(name, path, Record{}, WithIndexedFields(flds...)) on the
\* path of the Collection used so far, whose calls have returned (or whose
\* process has ended); the callers go on with the new handle.
Reopen(flds) ==
    /\ nopens < MaxOpens
    /\ crashed \/ \A p \in Procs : pc[p] = "idle"
    /\ nopens' = nopens + 1
    /\ initialized' = FALSE
    /\ Fields' = flds
    /\ Indexes' = EmptyIndexes
    /\ mu' = "free"
    /\ crashed' = FALSE
    /\ pc' = [p \in Procs |-> "idle"]
    /\ call' = [p \in Procs |-> Call("none", "", NoData, "", "")]
    /\ ret' = [p \in Procs |-> Err("none")]
    /\ dest' = [p \in Procs |-> ZeroRecord]
    /\ oldRec' = [p \in Procs |-> NoOldRec]
    /\ walk' = [p \in Procs |-> NoWalk]
    /\ res' = [p \in Procs |-> NoRes]
    /\ UNCHANGED <<files, indexFile, codec, ncalls, indexWritable>>

\* os.WriteFile of the index file starts to fail, or succeeds again.
IndexWriteFault ==
    /\ indexWritable' = ~indexWritable
    /\ UNCHANGED <<files, indexFile, initialized, Fields, Indexes, codec, mu, pc,
                   call, ret, dest, oldRec, crashed, ncalls, walk, res, nopens>>

\* c.save of the record file fails in Create or Update (pc "CreateSave" or
\* "UpdateSave"): os.WriteFile has created or truncated the file and
\* written none of the data; the error is returned as "saving record".
SaveFails(p) ==
    /\ pc[p] \in {"CreateSave", "UpdateSave"}
    /\ ~crashed
    /\ files' = save(files, call[p].id, << >>)
    /\ mu' = "free"
    /\ Return(p, Err("saving record"))
    /\ UNCHANGED <<indexFile, initialized, Fields, Indexes, codec, dest, oldRec,
                   crashed, ncalls, walk, res, indexWritable, nopens>>

(***************************************************************************)
(* The specifications.                                                     *)
(***************************************************************************)
Step(p) ==
    \/ InitCall(p)
    \/ InitLocked(p)
    \/ \E id \in Ids : \E data \in DataFor(id) : CreateCall(p, id, data)
    \/ CreateIndex(p)
    \/ CreateSave(p)
    \/ \E id \in Ids, d \in Dest : GetCall(p, id, d)
    \/ GetLoad(p)
    \/ \E l \in Lookups, d \in Dest : GetIndexedCall(p, l[1], l[2], d)
    \/ GetIndexedLocked(p)
    \/ \E id \in Ids : \E data \in DataFor(id) : UpdateCall(p, id, data)
    \/ UpdateIndex(p)
    \/ UpdateSave(p)
    \/ \E id \in Ids : DeleteCall(p, id)
    \/ DeleteLocked(p)
    \/ \E f \in Preds : QueryCall(p, f[1], f[2])
    \/ \E f \in Preds, a \in PageArgs : QueryPaginatedCall(p, f[1], f[2], a[1], a[2])
    \/ QueryVisit(p)
    \/ QueryReturn(p)

\* Concurrent callers.
Next == \E p \in Procs : Step(p)

Spec == Init /\ [][Next]_vars

\* One caller: every call returns before the next one starts.
SeqNext == Step("p1")

SeqSpec == Init /\ [][SeqNext]_vars

\* One caller, with Collections opened again on the path.
ReopenNext ==
    \/ Step("p1")
    \/ \E flds \in FieldConfigs : Reopen(flds)

ReopenSpec == Init /\ [][ReopenNext]_vars

\* One caller, with Collections opened again on the path and writes that
\* fail.
FaultNext ==
    \/ ReopenNext
    \/ IndexWriteFault
    \/ SaveFails("p1")

FaultSpec == Init /\ [][FaultNext]_vars

\* One caller that is scheduled again and again: a step it can take is
\* eventually taken (a goroutine that is runnable runs).
FairSeqSpec == SeqSpec /\ WF_vars(SeqNext)

\* The i-th of the records a Query has matched.
Match(i) ==
    [ID |-> WalkOrder[((i - 1) % Len(WalkOrder)) + 1], Name |-> "n",
     Email |-> IF ((i - 1) \div Len(WalkOrder)) % 2 = 0 THEN "a" ELSE "a:b"]

\* QueryPaginated at the end of its Query, with count matches collected.
PageInit ==
    /\ files = [i \in Ids |-> NoFile]
    /\ indexFile = NoIndexFile
    /\ initialized = TRUE
    /\ Fields = << >>
    /\ Indexes = EmptyIndexes
    /\ codec = "json"
    /\ mu = "free"
    /\ pc = [p \in Procs |-> IF p = "p1" THEN "QueryWalk" ELSE "idle"]
    /\ call = [p \in Procs |-> IF p = "p1" THEN Call("QueryPaginated", "", NoData, "", "")
                                 ELSE Call("none", "", NoData, "", "")]
    /\ ret = [p \in Procs |-> IF p = "p1" THEN Err("pending") ELSE Err("none")]
    /\ dest = [p \in Procs |-> ZeroRecord]
    /\ oldRec = [p \in Procs |-> NoOldRec]
    /\ crashed = FALSE
    /\ ncalls = 1
    /\ \E count \in 0..MaxMatches, page \in 0..MaxPage, rows \in 0..MaxRows :
           /\ walk = [p \in Procs |-> IF p = "p1" THEN [todo |-> << >>, page |-> page, rows |-> rows]
                                        ELSE NoWalk]
           /\ res = [p \in Procs |-> IF p = "p1" THEN [recs |-> [i \in 1..count |-> Match(i)], pages |-> 0]
                                       ELSE NoRes]
    /\ indexWritable = TRUE
    /\ nopens = 0

PageNext == QueryReturn("p1")

PageSpec == PageInit /\ [][PageNext]_vars

(***************************************************************************)
(* Definitions used to state the properties.                               *)
(***************************************************************************)
\* A destination passed as &Record{}.
PtrDest == [kind |-> "ptr", rec |-> ZeroRecord]

\* What Get(id, d) returns when no other call runs between its steps.
GetOutcome(fs, id, d) ==
    IF ~exists(fs, id) THEN [ret |-> Err("ErrNotFound"), dest |-> ZeroRecord]
    ELSE LoadInto(fs, id, d)

\* The record stored under id.
Stored(fs, id) == Decode(fs[id].b)

\* The configured indexed fields the record type has.
IndexedFields == {Fields[i] : i \in 1..Len(Fields)} \cap {"ID", "Name", "Email"}

\* The call of p returns in this step.
Returns(p, from) == pc[p] = from /\ pc'[p] = "idle"

(***************************************************************************)
(* C1.  After a successful Create(id, record) or Update(id, record), and   *)
(* before any later write to id, Get(id) succeeds and returns a value      *)
(* equal to record: Update overwrites the whole record file.               *)
(***************************************************************************)
C1_WriteThenGet ==
    [][\A p \in Procs :
          ((Returns(p, "CreateSave") \/ Returns(p, "UpdateSave")) /\ ret'[p].err = "nil")
          => GetOutcome(files', call[p].id, PtrDest)
               = [ret |-> Err("nil"), dest |-> call[p].data.rec]]_vars

\* An Update has returned success over a record created before.
C1_Witness ==
    \E p \in Procs : pc[p] = "idle" /\ call[p].op = "Update" /\ ret[p].err = "nil"

(***************************************************************************)
(* C2.  Create(id, record) called when a record file for id exists fails   *)
(* with IDNotUnique and leaves the record files, the index table and the   *)
(* index file as they were.                                                *)
(***************************************************************************)
C2_DuplicateIdRejected ==
    [][ncalls' # ncalls =>
          \A p \in Procs :
              (pc[p] = "idle" /\ call'[p].op = "Create") =>
                  \A id \in Ids :
                      files[id].exists =>
                          \A data \in DataFor(id) :
                              (data.kind # "other" /\ CreateCall(p, id, data))
                                  => /\ ret'[p] = Err("ErrNotIDNotUnique")
                                     /\ pc'[p] = "idle"
                                     /\ UNCHANGED <<files, Indexes, indexFile>>]_vars

\* A Create has returned IDNotUnique.
C2_Witness ==
    \E p \in Procs :
        /\ pc[p] = "idle" /\ call[p].op = "Create" /\ ret[p].err = "ErrNotIDNotUnique"
        /\ \E id \in Ids : files[id].exists

(***************************************************************************)
(* C3.  Create of a record (passed by value) whose value for an indexed    *)
(* field duplicates the value of a stored record fails with                *)
(* IndexedValueNotUnique for such a field and changes neither the record   *)
(* files nor the index table nor the index file.                           *)
(***************************************************************************)
\* The indexed fields for which the record of p's call duplicates the value
\* of a stored record.
DuplicatedFields(p) ==
    {f \in IndexedFields :
        \E id \in Ids \ {call[p].id} :
            files[id].exists /\ Stored(files, id)[f] = call[p].data.rec[f]}

C3_DuplicateValueRejected ==
    [][\A p \in Procs :
          (CreateIndex(p) /\ call[p].data.kind = "struct" /\ DuplicatedFields(p) # {})
          => /\ ret'[p].err = "IndexedValueNotUniqueError"
             /\ ret'[p].field \in DuplicatedFields(p)
             /\ UNCHANGED <<files, Indexes, indexFile>>]_vars

(***************************************************************************)
(* C4.  After a successful Update(id, newRecord) that changes the value of *)
(* an indexed field from old to new, GetIndexed(field, new) resolves to    *)
(* the record and GetIndexed(field, old) fails with NotFound.              *)
(***************************************************************************)
C4_UpdateMovesIndexEntry ==
    [][\A p \in Procs :
          (UpdateSave(p) /\ call[p].data.kind = "struct")
          => \A f \in IndexedFields :
                LET old == Stored(files, call[p].id)[f]
                    new == call[p].data.rec[f]
                IN  old # new
                    => /\ LookupIndexed(Indexes', files', f, new, PtrDest)
                            = [ret |-> Err("nil"), dest |-> call[p].data.rec]
                       /\ LookupIndexed(Indexes', files', f, old, PtrDest).ret
                            = Err("ErrNotFound")]_vars

(***************************************************************************)
(* C5.  Update(id, record) whose new value for an indexed field is indexed *)
(* for a different stored record fails with IndexedValueNotUnique and      *)
(* leaves that record's index entry mapped to it.                          *)
(***************************************************************************)
\* The keys of the new record of p's call that are mapped to another stored
\* record holding that value.
TakenKeys(p) ==
    {key(f, call[p].data.rec[f]) : f \in
        {g \in IndexedFields :
            LET k == key(g, call[p].data.rec[g])
            IN  /\ k \in DOMAIN Indexes
                /\ Indexes[k] # call[p].id
                /\ files[Indexes[k]].exists
                /\ Stored(files, Indexes[k])[g] = call[p].data.rec[g]}}

C5_UpdateDuplicateRejected ==
    [][\A p \in Procs :
          (UpdateIndex(p) /\ call[p].data.kind = "struct" /\ TakenKeys(p) # {})
          => /\ ret'[p].err = "IndexedValueNotUniqueError"
             /\ \A k \in TakenKeys(p) : k \in DOMAIN Indexes' /\ Indexes'[k] = Indexes[k]]_vars

(***************************************************************************)
(* C6.  Whenever no call is in progress on an initialized Collection, for  *)
(* every indexed field f and every stored record r the index table maps    *)
(* (f, r.f) to r's id, and no two stored records have the same value for   *)
(* the same indexed field.                                                 *)
(***************************************************************************)
C6_IndexMatchesRecords ==
    (initialized /\ ~crashed /\ \A p \in Procs : pc[p] = "idle")
    => \A f \in IndexedFields : \A id \in Ids :
          files[id].exists
          => /\ key(f, Stored(files, id)[f]) \in DOMAIN Indexes
             /\ Indexes[key(f, Stored(files, id)[f])] = id
             /\ \A id2 \in Ids \ {id} :
                   files[id2].exists => Stored(files, id2)[f] # Stored(files, id)[f]

(***************************************************************************)
(* C7.  After a successful Delete(id), Get(id) fails with NotFound, no     *)
(* index entry is mapped to id, and the entries mapped to other ids are    *)
(* as they were.                                                           *)
(***************************************************************************)
C7_DeleteRemovesRecordAndEntries ==
    [][\A p \in Procs :
          (Returns(p, "DeleteLock") /\ ret'[p].err = "nil")
          => /\ GetOutcome(files', call[p].id, PtrDest).ret = Err("ErrNotFound")
             /\ \A k \in DOMAIN Indexes' : Indexes'[k] # call[p].id
             /\ \A k \in DOMAIN Indexes :
                   Indexes[k] # call[p].id => k \in DOMAIN Indexes' /\ Indexes'[k] = Indexes[k]
             /\ DOMAIN Indexes' \subseteq DOMAIN Indexes]_vars

\* A Delete has returned success and entries of another record remain.
C7_Witness ==
    \E p \in Procs :
        /\ pc[p] = "idle" /\ call[p].op = "Delete" /\ ret[p].err = "nil"
        /\ DOMAIN Indexes # {}
        /\ \E id \in Ids : ~files[id].exists

(***************************************************************************)
(* C8.  Of Create calls in progress together with pairwise distinct ids    *)
(* and pairwise distinct indexed values, none fails: each inserts its one  *)
(* entry per indexed field, mapped to its id, and goes on to write its     *)
(* record.                                                                 *)
(***************************************************************************)
\* The keys of the Create call of p.
CallKeys(p) == {key(f, call[p].data.rec[f]) : f \in IndexedFields}

\* The callers are all inside Create, before the lock, with pairwise
\* distinct ids and indexed values that nothing stored or indexed has.
DistinctCreates ==
    /\ IndexedFields # {}
    /\ \A p \in Procs : pc[p] = "CreateLock" /\ CallKeys(p) \cap DOMAIN Indexes = {}
    /\ \A p, q \in Procs :
          p # q => /\ call[p].id # call[q].id
                   /\ \A f \in IndexedFields : call[p].data.rec[f] # call[q].data.rec[f]

C8_ConcurrentCreatesSucceed ==
    [][\A p \in Procs :
          (DistinctCreates /\ CreateIndex(p))
          => /\ pc'[p] = "CreateSave"
             /\ DOMAIN Indexes' = DOMAIN Indexes \cup CallKeys(p)
             /\ \A k \in CallKeys(p) : Indexes'[k] = call[p].id]_vars

(***************************************************************************)
(* C9.  Of two Create calls with the same id at most one succeeds: a       *)
(* Create never writes a record file that exists.                          *)
(***************************************************************************)
C9_CreateNeverOverwrites ==
    [][\A p \in Procs : CreateSave(p) => ~files[call[p].id].exists]_vars

(***************************************************************************)
(* C10.  GetIndexed(field, value) returns the record stored under the id   *)
(* the index maps (field, value) to, as Get on that id does, and fails     *)
(* with NotFound whenever no stored record has that value for that field,  *)
(* in particular when field is not an indexed field.                       *)
(***************************************************************************)
\* Some stored record has value v for the indexed field `field`.
SomeRecordHas(field, v) ==
    /\ field \in IndexedFields
    /\ \E id \in Ids : files[id].exists /\ Stored(files, id)[field] = v

C10_GetIndexedResolves ==
    [][\A p \in Procs :
          (GetIndexedLocked(p) /\ call[p].data.kind = "ptr")
          => LET k == key(call[p].field, call[p].v)
             IN  /\ k \in DOMAIN Indexes
                    => /\ ret'[p] = GetOutcome(files, Indexes[k], call[p].data).ret
                       /\ dest'[p] = GetOutcome(files, Indexes[k], call[p].data).dest
                 /\ ~SomeRecordHas(call[p].field, call[p].v)
                    => ret'[p] = Err("ErrNotFound")]_vars

\* The index table the index file holds: what a handle opened now loads.
Persisted == IF indexFile.exists THEN indexFile.Indexes ELSE EmptyIndexes

\* Every key idx resolves is resolved to the same id by other.
ResolvesAll(idx, other) == \A k \in DOMAIN idx : k \in DOMAIN other /\ other[k] = idx[k]

\* C11: a second Collection opened on the same path with the same indexed
\* fields, after the calls made through the first handle have returned,
\* initializes without a rebuild: Init succeeds, keeps the fields, and the
\* in-memory index table equals the table in the index file; every key the
\* first handle resolved is in that table with the same id, so GetIndexed
\* through the new handle resolves it.
C11_ReopenLoadsPersistedIndex ==
    [][/\ \A flds \in FieldConfigs :
              (initialized /\ ~crashed /\ flds = Fields /\ Reopen(flds))
                  => ResolvesAll(Indexes, Persisted)
       /\ \A p \in Procs :
              (nopens > 0 /\ indexFile.exists /\ indexFile.Fields = Fields /\ InitLocked(p))
                  => /\ ret'[p].err = "nil"
                     /\ initialized'
                     /\ Fields' = Fields
                     /\ Indexes' = indexFile.Indexes]_vars

\* A second handle, opened with the fields of the index file, is initialized
\* and resolves a key.
C11_Witness ==
    /\ nopens > 0
    /\ initialized
    /\ call["p1"].op = "Init"
    /\ ret["p1"].err = "nil"
    /\ indexFile.exists
    /\ Indexes # EmptyIndexes
    /\ Indexes = indexFile.Indexes

\* idx holds exactly the entries a scan of the record files in fs yields for
\* the fields flds: key(f, v) -> id for every stored record id whose field f
\* has the value v, and nothing else.
ScanExact(idx, fs, flds) ==
    /\ \A id \in Ids, i \in 1..Len(flds) :
           (exists(fs, id) /\ Decodable(fs[id].b))
               => key(flds[i], Stored(fs, id)[flds[i]]) \in DOMAIN idx
    /\ \A k \in DOMAIN idx :
           \E id \in Ids, i \in 1..Len(flds) :
               /\ exists(fs, id)
               /\ Decodable(fs[id].b)
               /\ k = key(flds[i], Stored(fs, id)[flds[i]])
               /\ idx[k] = id

\* C12: when the configured indexed fields (all of them fields of the
\* record) differ from the persisted ones, a record is stored and Init
\* returns, the index table holds exactly the entries a scan of the stored
\* record files yields for the configured fields.
C12_RebuildMatchesScan ==
    [][\A p \in Procs :
          (/\ indexFile.exists
           /\ indexFile.Fields # Fields
           /\ \A i \in 1..Len(Fields) : HasField(Fields[i])
           /\ \E id \in Ids : exists(files, id)
           /\ InitLocked(p)
           /\ ret'[p].err = "nil")
              => ScanExact(Indexes', files, Fields)]_vars

\* ceil(count / rows) for rows >= 1.
Ceil(count, rows) == CHOOSE n \in 0..count : n * rows >= count /\ (n = 0 \/ (n - 1) * rows < count)

\* C13: QueryPaginated over count matches returns every match and pages = 0
\* when page = 0 and rows = 0; otherwise (rows >= 1, so that count / rows is
\* a number) it returns pages = ceil(count / rows) and, with a page greater
\* than pages clamped to pages, the slice (page-1)*rows .. min(page*rows,
\* count) of the matches.
C13_PaginationFormula ==
    [][\A p \in Procs :
          (call[p].op = "QueryPaginated" /\ QueryReturn(p))
              => LET matches == res[p].recs
                     count == Len(matches)
                     page == walk[p].page
                     rows == walk[p].rows
                 IN  IF page = 0 /\ rows = 0
                     THEN /\ ret'[p].err = "nil"
                          /\ res'[p] = [recs |-> matches, pages |-> 0]
                     ELSE rows >= 1 =>
                          LET pages == Ceil(count, rows)
                              pg == IF page > pages THEN pages ELSE page
                              to == IF pg * rows < count THEN pg * rows ELSE count
                          IN  /\ ret'[p].err = "nil"
                              /\ res'[p].pages = pages
                              /\ res'[p].recs = SubSeq(matches, ((pg - 1) * rows) + 1, to)]_vars

\* C14: QueryPaginated with rows = 0 and page # 0 returns an InvalidArgument
\* error and does not crash.
C14_ZeroRowsRejected ==
    [][\A p \in Procs :
          (/\ call[p].op = "QueryPaginated"
           /\ walk[p].rows = 0
           /\ walk[p].page # 0
           /\ QueryReturn(p))
              => ret'[p].err = "InvalidArgument" /\ ~crashed']_vars

\* C15: with one caller, Query(pred) returns nil and exactly one result for
\* every stored record file whose decoded record satisfies pred, every
\* result being the decoded content of such a file: none for a record that
\* does not satisfy pred, for a deleted record or for the index file.
C15_QueryReturnsMatches ==
    [][\A p \in Procs :
          (call[p].op = "Query" /\ Returns(p, "QueryWalk"))
              => /\ ret'[p].err = "nil"
                 /\ \A id \in Ids :
                        Cardinality({i \in 1..Len(res'[p].recs) : res'[p].recs[i].ID = id})
                            = IF /\ exists(files, id)
                                 /\ \/ call[p].field = ""
                                    \/ Stored(files, id)[call[p].field] = call[p].v
                              THEN 1 ELSE 0
                 /\ \A i \in 1..Len(res'[p].recs) :
                        /\ res'[p].recs[i].ID \in Ids
                        /\ res'[p].recs[i] = Stored(files, res'[p].recs[i].ID)]_vars

\* A Query has returned one record of two stored ones, the index file being
\* in the directory.
C15_Witness ==
    /\ call["p1"].op = "Query"
    /\ pc["p1"] = "idle"
    /\ ret["p1"].err = "nil"
    /\ Len(res["p1"].recs) = 1
    /\ \A id \in Ids : exists(files, id)
    /\ indexFile.exists

\* C16: when the walk of Query or QueryPaginated comes to a record file
\* that does not decode, the file is skipped: the walk goes on with the next
\* file, the result so far is kept and no error is returned.
C16_UndecodableSkipped ==
    [][\A p \in Procs :
          (/\ pc[p] = "QueryWalk"
           /\ walk[p].todo # << >>
           /\ exists(files, Head(walk[p].todo))
           /\ ~Decodable(files[Head(walk[p].todo)].b)
           /\ QueryVisit(p))
              => /\ pc'[p] = "QueryWalk"
                 /\ walk'[p].todo = Tail(walk[p].todo)
                 /\ res'[p] = res[p]
                 /\ ret'[p] = ret[p]]_vars

\* p starts a Create, Get, GetIndexed, Update, Delete, Query or
\* QueryPaginated.
DataCall(p) ==
    \/ \E id \in Ids : \E data \in DataFor(id) : CreateCall(p, id, data)
    \/ \E id \in Ids, d \in Dest : GetCall(p, id, d)
    \/ \E l \in Lookups, d \in Dest : GetIndexedCall(p, l[1], l[2], d)
    \/ \E id \in Ids : \E data \in DataFor(id) : UpdateCall(p, id, data)
    \/ \E id \in Ids : DeleteCall(p, id)
    \/ \E f \in Preds : QueryCall(p, f[1], f[2])
    \/ \E f \in Preds, a \in PageArgs : QueryPaginatedCall(p, f[1], f[2], a[1], a[2])

\* C17: Create, Get, GetIndexed, Update, Delete, Query and QueryPaginated
\* on a Collection that is not initialized return ErrNotInitialized and
\* change neither the record files nor the index table nor the index file.
C17_NotInitializedRejected ==
    [][\A p \in Procs :
          (~initialized /\ pc[p] = "idle" /\ ncalls' # ncalls /\ DataCall(p))
              => /\ ret'[p].err = "ErrNotInitialized"
                 /\ pc'[p] = "idle"
                 /\ UNCHANGED <<files, Indexes, indexFile>>]_vars

\* A call on a handle not yet initialized, opened on a path that holds a
\* record file and an index file, has returned ErrNotInitialized.
C17_Witness ==
    /\ nopens > 0
    /\ ~initialized
    /\ ret["p1"].err = "ErrNotInitialized"
    /\ \E id \in Ids : exists(files, id)
    /\ indexFile.exists

\* C18: Init on an initialized Collection returns ErrAlreadyInitialized and
\* leaves it initialized with index table, indexed fields and files as they
\* were; initialized never goes back to FALSE, so it goes from FALSE to
\* TRUE at most once.
C18_InitOnce ==
    [][/\ \A p \in Procs :
              (initialized /\ pc[p] = "idle" /\ call'[p].op = "Init" /\ InitCall(p))
                  => /\ ret'[p].err = "ErrAlreadyInitialized"
                     /\ pc'[p] = "idle"
                     /\ initialized'
                     /\ UNCHANGED <<Fields, Indexes, indexFile, files>>
       /\ initialized => initialized']_vars

\* Init has been refused on an initialized Collection that holds an index
\* entry.
C18_Witness ==
    /\ initialized
    /\ \E p \in Procs : call[p].op = "Init" /\ ret[p].err = "ErrAlreadyInitialized"
    /\ Indexes # EmptyIndexes

C20_IndexWriteFailureReported ==
    [][\A p \in Procs :
          (/\ pc[p] \in {"CreateSave", "UpdateSave"}
           /\ Persisted # Indexes
           /\ Returns(p, pc[p]))
              => ret'[p].err # "nil"]_vars

\* C21: in the state in which a Create, an Update or a Delete returns nil,
\* the table in the index file (empty when the file was never written)
\* equals the in-memory index table.
C21_PersistedEqualsMemory ==
    [][\A p \in Procs :
          (/\ pc[p] \in {"CreateSave", "UpdateSave", "DeleteLock"}
           /\ Returns(p, pc[p])
           /\ ret'[p].err = "nil")
              => Persisted' = Indexes']_vars

\* idx maps, for every field of flds the record has, the key of the
\* record's value to id.
EntriesPresent(idx, flds, rec, id) ==
    \A i \in 1..Len(flds) :
        HasField(flds[i]) =>
            /\ key(flds[i], rec[flds[i]]) \in DOMAIN idx
            /\ idx[key(flds[i], rec[flds[i]])] = id

\* C22: when a Create writes its record file, the index entry of every
\* indexed field the record has is in the in-memory table and in the index
\* file, mapped to the record's id, both before the write (the state a
\* crash before the write leaves on disk: entries without a record file)
\* and after it.
C22_IndexBeforeRecordFile ==
    [][\A p \in Procs :
          (pc[p] = "CreateSave" /\ CreateSave(p))
              => /\ EntriesPresent(Indexes, Fields, call[p].data.rec, call[p].id)
                 /\ EntriesPresent(Persisted, Fields, call[p].data.rec, call[p].id)
                 /\ exists(files', call[p].id)
                 /\ EntriesPresent(Indexes', Fields, call[p].data.rec, call[p].id)
                 /\ EntriesPresent(Persisted', Fields, call[p].data.rec, call[p].id)]_vars

\* C23: a Create is rejected with IndexedValueNotUnique for a field only
\* when the key of the record's value for that field is mapped to a
\* different id; a key that is absent, or mapped to the id being created (an
\* entry an earlier failed Create of that id left), does not reject it.
C23_RejectsOnlyOtherId ==
    [][\A p \in Procs :
          (/\ pc[p] = "CreateLock"
           /\ CreateIndex(p)
           /\ ret'[p].err = "IndexedValueNotUniqueError")
              => LET k == key(ret'[p].field, getFieldValue(call[p].data, ret'[p].field).text)
                 IN  /\ k \in DOMAIN Indexes
                     /\ Indexes[k] # call[p].id]_vars

\* C24: an Init that finds an index file whose indexed fields differ from
\* the configured ones and returns nil leaves the configured fields in
\* effect: c.Indexing.Fields, the fields the rebuild, Create and Update
\* loop over, are the configured ones and not the persisted ones.
C24_ConfiguredFieldsEffective ==
    [][\A p \in Procs :
          (/\ pc[p] = "InitLock"
           /\ indexFile.exists
           /\ indexFile.Fields # Fields
           /\ InitLocked(p)
           /\ ret'[p].err = "nil")
              => Fields' = Fields]_vars

\* Init is about to rebuild the index: the index file is there and
\* cmp.Diff finds its fields different from indexedFields.
Rebuilds == indexFile.exists /\ SharedSlice(Fields, indexFile.Fields) # indexFile.Fields

\* C25: an Init that rebuilds the index returns nil, without an error and
\* without a panic, whatever the record files hold (one that does not
\* decode, a record lacking an indexed field), and the table it leaves has
\* the entries of every record file that decodes and has the fields the
\* rebuild loops over.
C25_RebuildBestEffort ==
    [][\A p \in Procs :
          (pc[p] = "InitLock" /\ Rebuilds /\ InitLocked(p))
              => /\ ret'[p].err = "nil"
                 /\ \A id \in Ids :
                        (/\ exists(files, id)
                         /\ Decodable(files[id].b)
                         /\ \A i \in 1..Len(Fields') : HasField(Fields'[i]))
                            => \A i \in 1..Len(Fields') :
                                   key(Fields'[i], Stored(files, id)[Fields'[i]]) \in DOMAIN Indexes']_vars

\* C26: after an Init that rebuilt the index and returned nil, every entry
\* of the in-memory table is derived from a record file of the directory:
\* its key is the key of an indexed field of a stored record and its id is
\* that record's.  With no record file the table is empty; no entry of the
\* table loaded from the index file survives on its own.
C26_RebuildReplacesTable ==
    [][\A p \in Procs :
          (pc[p] = "InitLock" /\ Rebuilds /\ InitLocked(p) /\ ret'[p].err = "nil")
              => /\ \A k \in DOMAIN Indexes' :
                        \E id \in Ids, i \in 1..Len(Fields') :
                            /\ exists(files, id)
                            /\ Decodable(files[id].b)
                            /\ k = key(Fields'[i], getFieldValue([kind |-> "struct", rec |-> Stored(files, id)], Fields'[i]).text)
                            /\ Indexes'[k] = id
                 /\ (\A id \in Ids : ~exists(files, id)) => Indexes' = EmptyIndexes]_vars

\* C27: a Create of a record that lacks an indexed field inserts no entry
\* for that field and is not rejected for it: it does not return
\* IndexedValueNotUnique naming a field the record does not have, and it
\* leaves no key of such a field in the table.
C27_MissingFieldNotIndexed ==
    [][\A p \in Procs :
          (pc[p] = "CreateLock" /\ isStruct(call[p].data) /\ CreateIndex(p))
              => /\ ret'[p].err = "IndexedValueNotUniqueError" => HasField(ret'[p].field)
                 /\ \A i \in 1..Len(Fields) :
                        ~HasField(Fields[i])
                            => key(Fields[i], invReflectString) \notin DOMAIN Indexes']_vars

\* The positions at which a caller is about to take c.mu, and those at
\* which it holds it between two steps of its locked section.
LockWaits == {"InitLock", "CreateLock", "GetIndexedLock", "UpdateLock", "DeleteLock"}
LockHeld == {"CreateSave", "UpdateSave"}

\* C28: while a caller is inside the locked section of its Create or
\* Update (its index writes done, its record file not yet written) it holds
\* the lock, and until it moves on no other caller enters a locked section
\* (no Create, Update, Delete, Init or GetIndexed lookup passes its Lock)
\* and neither the index table, the index file nor a record file changes.
C28_MutualExclusion ==
    [][\A q \in Procs :
          pc[q] \in LockHeld
              => /\ mu = q
                 /\ \A p \in Procs \ {q} : pc[p] \notin LockHeld
                 /\ pc'[q] = pc[q]
                        => /\ Indexes' = Indexes
                           /\ indexFile' = indexFile
                           /\ files' = files
                           /\ \A p \in Procs \ {q} :
                                  /\ pc[p] \in LockWaits => pc'[p] = pc[p]
                                  /\ pc'[p] \notin LockHeld]_vars

\* One caller is inside its Create, the other waits for the lock with its
\* Create or its GetIndexed lookup.
C28_Witness ==
    \E q \in Procs, p \in Procs :
        /\ p # q
        /\ pc[q] = "CreateSave"
        /\ mu = q
        /\ pc[p] \in {"CreateLock", "GetIndexedLock"}

\* C29: every invocation of Init, Create, Update, Delete or GetIndexed
\* that has got to its Lock eventually returns to its caller (it does not
\* end in a panic, and it does not wait forever), and a caller that is not
\* inside a call does not hold the lock.
C29_EveryCallReturns ==
    /\ \A p \in Procs :
           (pc[p] \in LockWaits) ~> (pc[p] = "idle" /\ ret[p].err # "panic")
    /\ [](\A p \in Procs : pc[p] = "idle" => mu # p)

\* The slice bounds QueryPaginated computes for count matches (indexing.go
\* 548-565), rows >= 1: the page count, the clamped page, from and to.
SliceBounds(count, page, rows) ==
    LET pages == (count \div rows) + (IF count % rows # 0 THEN 1 ELSE 0)
        pg == IF page > pages THEN pages ELSE page
    IN  [from |-> (pg * rows) - rows,
         to |-> IF pg * rows > count THEN count ELSE pg * rows]

\* C30: for every number of matches count >= 0, every rows >= 1 and every
\* page >= 0, QueryPaginated returns without a crash and the bounds of the
\* slice it takes satisfy 0 <= from <= to <= count.
C30_SliceBoundsValid ==
    [][\A p \in Procs :
          (/\ call[p].op = "QueryPaginated"
           /\ walk[p].rows >= 1
           /\ walk[p].page >= 0
           /\ QueryReturn(p))
              => LET count == Len(res[p].recs)
                     b == SliceBounds(count, walk[p].page, walk[p].rows)
                 IN  /\ ret'[p].err # "panic"
                     /\ ~crashed'
                     /\ 0 <= b.from
                     /\ b.from <= b.to
                     /\ b.to <= count]_vars

\* C31: once all calls have returned, with no crash, every entry of the
\* in-memory index table maps its key to an id whose record file exists and
\* whose stored record has, at an indexed field, the value the key is made
\* of: no dangling and no stale entry.
C31_NoStaleOrDanglingEntry ==
    ((\A p \in Procs : pc[p] = "idle") /\ ~crashed /\ initialized)
        => \A k \in DOMAIN Indexes :
               /\ exists(files, Indexes[k])
               /\ \E i \in 1..Len(Fields) :
                      k = key(Fields[i],
                              getFieldValue([kind |-> "struct", rec |-> Stored(files, Indexes[k])],
                                            Fields[i]).text)

\* C32: an Update of id that read the old record before a concurrent
\* Delete of id removed it (at the Update's save step the record file is
\* gone, and no Create of id is under way) does not bring the record back:
\* when it returns, id has no record file and no index entry maps to id.
C32_UpdateAfterDeleteNoRecreate ==
    [][\A p \in Procs :
          (/\ pc[p] = "UpdateSave"
           /\ ~exists(files, call[p].id)
           /\ \A q \in Procs \ {p} : ~(call[q].op = "Create" /\ pc[q] # "idle")
           /\ UpdateSave(p))
              => /\ ~exists(files', call[p].id)
                 /\ \A k \in DOMAIN Indexes' : Indexes'[k] # call[p].id]_vars

====
